---- MODULE Spec2Model ----
(***************************************************************************)
(* Contract-Analyzer: the job lifecycle of process_contract_task           *)
(* (src/tasks/celery_worker.py) driving the extraction pipeline of         *)
(* ContractProcessor (src/services/contract_processor.py) against the      *)
(* "contracts" collection created by upload_contract (src/api/contracts.py)*)
(*                                                                         *)
(* One worker process runs the dispatched tasks one after the other; the   *)
(* module globals _nlp and _semantic_model belong to that process and      *)
(* outlive a task.  A document is abstracted to what the extractors can    *)
(* find in it; confidence scores are in hundredths (0.75 is 75).           *)
(* update_one is atomic on one document: it either applies the whole $set  *)
(* and returns, or raises and applies nothing.                             *)
(***************************************************************************)
EXTENDS Integers, Sequences, FiniteSets, TLC

\* ---------------------------------------------------------------- bounds
MaxJobs == 1          \* uploads (and so tasks) in one run
MaxOrgs == 2          \* ORG entities the recogniser may report

Jobs == 1..MaxJobs

\* Python None (or a key that is not set), one per kind of value so that a
\* value is only ever compared with values of its own kind.
Null == "None"                \* where a string is expected
None == [none |-> TRUE]       \* where a dict is expected
NoList == <<"None">>          \* where a list is expected
NoCount == -1                 \* where a count is expected

\* ------------------------------------------------------------- documents
\* What is on disk at file_path: nothing, a file PyMuPDF cannot open, a
\* file that opens and has no text at all, a file with text.
DocKinds == {"missing", "unreadable", "blank", "text"}

\* Length in characters of the text a regular expression matches (its
\* group 0), 0 when no pattern matches; and of a keyword-matching sentence.
\* The lengths sit on both sides of the 250 the snippet is cut at.
SnippetMax == 250
MatchLens == {0, SnippetMax, SnippetMax + 1}
SentenceLens == {SnippetMax, SnippetMax + 1}

\* Length of "Found in signature zone on page N: " for a one-digit N.
PrefixLen == 35

Min(a, b) == IF a < b THEN a ELSE b

\* Best cosine similarity (in hundredths) the classifier can reach over the
\* keyword-matching sentences; 0 stands for "no sentence matched a keyword".
SimScores == {0, 50, 51, 65, 66}

\* ----------------------------------------------------------------- state
VARIABLES
    files,              \* uploads directory: job -> DocKinds or Null
    records,            \* the contracts collection: job -> record or None
    queue,              \* tasks dispatched by .delay(), not yet started
    results,            \* what a finished task returned to the queue
    _nlp,               \* module global of contract_processor.py
    _semantic_model,    \* module global of contract_processor.py
    cur,                \* contract_id of the running task, 0 when idle
    pc,                 \* position of the running task
    mongo_client,       \* TRUE once the name is bound in the task
    nlp,                \* local reference inside process()
    semantic_model,     \* local reference inside process()
    full_text,          \* ContractProcessor.full_text: "" or "text"
    found_fields,       \* ContractProcessor.found_fields
    analysis_result,    \* return value of analyze_contract_advanced
    best_score,         \* best_match["score"] of the renewal classifier
    renewal_semantic,   \* local of _extract_with_semantic_classifier
    fallback_calls,     \* history: runs of the fallback renewal regex
    search_content_string,
    exc,                \* exception in flight (its message), Null if none
    trace,              \* history: strategies that have run, in order
    soft,               \* history: soft failures absorbed by a strategy
    raised,             \* history: the exception the task's handler caught
    swallowed,          \* history: exceptions caught and dropped by the task
    other               \* the process state of a second worker process

vars == <<files, records, queue, results, _nlp, _semantic_model, cur, pc,
          mongo_client, nlp, semantic_model, full_text, found_fields,
          analysis_result, best_score, renewal_semantic, fallback_calls,
          search_content_string, exc, trace, soft, raised, swallowed,
          other>>

dbvars     == <<files, records, queue, results>>
globals    == <<_nlp, _semantic_model>>
locals     == <<nlp, semantic_model>>
semantic_locals == <<best_score, renewal_semantic, fallback_calls>>
pipeline   == <<full_text, found_fields, analysis_result, semantic_locals>>
history    == <<trace, soft, raised, swallowed>>

\* ------------------------------------------------------------ data model
\* db/models.py Contract: the defaults a new record is inserted with.
\* search_content is not a field of Contract, so the key is not set.
Contract ==
    [processing_status   |-> "processing",
     progress_percentage |-> 0,
     progress_message    |-> "Task has been queued.",
     error_message       |-> Null,
     extracted_data      |-> None,
     identified_gaps     |-> NoList,
     gaps_count          |-> NoCount,
     search_content      |-> NoList]

\* The keys of found_fields.  A key never assigned reads as None with .get.
FieldNames == {"customer_name", "vendor_name", "textual_representative",
               "signature_block_signatory", "authorized_signatory",
               "payment_terms", "billing_cycle", "renewal_terms"}

NoFields == [f \in FieldNames |-> None]

\* A candidate dict.  source_snippet is the length of the snippet, NoCount
\* when the key is not written.
Candidate(v, c, s) == [value |-> v, confidence_score |-> c, source_snippet |-> s]

\* _find_field_regex keeping the whole match as the snippet.
_find_field_regex_untruncated(text, matched, what, confidence) ==
    IF text # "" /\ matched > 0
    THEN Candidate(what, confidence, matched)
    ELSE None

\* _find_field_regex: the first pattern that matches gives the candidate,
\* no match gives None.  matched is the length of the match of the first
\* pattern that matches text, 0 when none does; the snippet is
\* match.group(0).strip()[:250].
_find_field_regex(text, matched, what, confidence) ==
    IF text # "" /\ matched > 0
    THEN Candidate(what, confidence, Min(matched, SnippetMax))
    ELSE None

\* --------------------------------------------------------- worker process
\* Everything a worker process owns: the module globals of
\* contract_processor.py, the frame of the task it runs, and the history
\* kept about that task.
WorkerState ==
    [_nlp |-> _nlp, _semantic_model |-> _semantic_model, cur |-> cur,
     pc |-> pc, mongo_client |-> mongo_client, nlp |-> nlp,
     semantic_model |-> semantic_model, full_text |-> full_text,
     found_fields |-> found_fields, analysis_result |-> analysis_result,
     best_score |-> best_score, renewal_semantic |-> renewal_semantic,
     fallback_calls |-> fallback_calls,
     search_content_string |-> search_content_string, exc |-> exc,
     trace |-> trace, soft |-> soft, raised |-> raised,
     swallowed |-> swallowed]

\* A worker process that has just started: no model loaded, no task.
IdleWorker ==
    [_nlp |-> Null, _semantic_model |-> Null, cur |-> 0,
     pc |-> "idle", mongo_client |-> FALSE, nlp |-> Null,
     semantic_model |-> Null, full_text |-> "",
     found_fields |-> NoFields, analysis_result |-> None,
     best_score |-> 0, renewal_semantic |-> None,
     fallback_calls |-> 0,
     search_content_string |-> NoList, exc |-> Null,
     trace |-> <<>>, soft |-> {}, raised |-> Null,
     swallowed |-> {}]

\* ------------------------------------------------------------------ init
Init ==
    /\ files = [j \in Jobs |-> Null]
    /\ records = [j \in Jobs |-> None]
    /\ queue = <<>>
    /\ results = [j \in Jobs |-> None]
    /\ _nlp = Null
    /\ _semantic_model = Null
    /\ cur = 0
    /\ pc = "idle"
    /\ mongo_client = FALSE
    /\ nlp = Null
    /\ semantic_model = Null
    /\ full_text = ""
    /\ found_fields = NoFields
    /\ analysis_result = None
    /\ best_score = 0
    /\ renewal_semantic = None
    /\ fallback_calls = 0
    /\ search_content_string = NoList
    /\ exc = Null
    /\ trace = <<>>
    /\ soft = {}
    /\ raised = Null
    /\ swallowed = {}
    /\ other = IdleWorker

\* ---------------------------------------------------------------- upload
\* api/contracts.py upload_contract: a fresh contract_id (uuid4, here the
\* next unused number), the file is written, the record inserted with the
\* Contract defaults, the task queued.
upload_contract(j, doc) ==
    /\ records[j] = None
    /\ \A i \in DOMAIN records : i < j => records[i] # None
    /\ files' = [files EXCEPT ![j] = doc]
    /\ records' = [records EXCEPT ![j] = Contract]
    /\ queue' = Append(queue, j)
    /\ UNCHANGED <<other, results, globals, cur, pc, mongo_client, locals, pipeline,
                   search_content_string, exc, history>>

\* ------------------------------------------------- process_contract_task
\* A worker process takes the next task off the queue (one task at a time).
task_start ==
    /\ pc = "idle"
    /\ queue # <<>>
    /\ cur' = Head(queue)
    /\ queue' = Tail(queue)
    /\ pc' = "connect"
    /\ UNCHANGED <<other, files, records, results, globals, mongo_client, locals,
                   pipeline, search_content_string, exc, history>>

\* celery_worker.py 24-27: MongoClient(...) either binds mongo_client and
\* contracts_collection or raises before either name is bound.
connect ==
    /\ pc = "connect"
    /\ \/ /\ mongo_client' = TRUE
          /\ pc' = "check_file"
          /\ exc' = exc
       \/ /\ mongo_client' = mongo_client
          /\ pc' = "except"
          /\ exc' = "MongoClient failed"
    /\ UNCHANGED <<other, dbvars, globals, cur, locals, pipeline,
                   search_content_string, history>>

\* celery_worker.py 31-32: os.path.exists(file_path).
check_file ==
    /\ pc = "check_file"
    /\ IF files[cur] = "missing"
       THEN pc' = "except" /\ exc' = "File not found"
       ELSE pc' = "progress10" /\ exc' = exc
    /\ UNCHANGED <<other, dbvars, globals, cur, mongo_client, locals, pipeline,
                   search_content_string, history>>

\* celery_worker.py 35-40: the $set of one progress update.
update_progress(rec, percentage, message) ==
    [rec EXCEPT !.progress_percentage = percentage,
                !.progress_message = message]

\* progress_step whose update_one has an empty filter in place of
\* {"contract_id": contract_id}: the $set reaches every stored record.
progress_step_unkeyed(at, percentage, message, next) ==
    /\ pc = at
    /\ \/ /\ records' = [j \in DOMAIN records |->
                           IF records[j] = None THEN None
                           ELSE update_progress(records[j], percentage, message)]
          /\ pc' = next
          /\ exc' = exc
       \/ /\ records' = records
          /\ pc' = "except"
          /\ exc' = "update_one failed"
    /\ UNCHANGED <<other, files, queue, results, globals, cur, mongo_client,
                   locals, pipeline, search_content_string, history>>

\* One call of update_progress at position at: the write lands, or
\* update_one raises and nothing is written.
progress_step(at, percentage, message, next) ==
    /\ pc = at
    /\ \/ /\ records' = [records EXCEPT
                           ![cur] = update_progress(@, percentage, message)]
          /\ pc' = next
          /\ exc' = exc
       \/ /\ records' = records
          /\ pc' = "except"
          /\ exc' = "update_one failed"
    /\ UNCHANGED <<other, files, queue, results, globals, cur, mongo_client, locals,
                   pipeline, search_content_string, history>>

\* celery_worker.py 42
progress10 ==
    progress_step("progress10", 10, "Starting contract analysis...", "progress20")

\* celery_worker.py 49
progress20 ==
    progress_step("progress20", 20, "Loading NLP models...", "_get_full_text")

\* celery_worker.py 53
progress90 ==
    progress_step("progress90", 90, "Finalizing analysis and saving results...",
                  "search_content")

\* ------------------------------------------------ contract_processor.py
\* contract_processor.py 40-46
clear_models ==
    /\ _nlp' = Null
    /\ _semantic_model' = Null

\* An exception leaving process(): its handler (96-100) and the handler of
\* analyze_contract_advanced (53-57) both call clear_models and re-raise;
\* the frame and its local references are gone; the exception reaches the
\* handler of the task.
raise_in_process(message) ==
    /\ clear_models
    /\ nlp' = Null
    /\ semantic_model' = Null
    /\ exc' = message
    /\ pc' = "except"

\* contract_processor.py 102-108, called from __init__ (62): the Loader.
\* A file PyMuPDF cannot open gives "" and the failure is only printed.
_get_full_text ==
    /\ pc = "_get_full_text"
    /\ full_text' = IF files[cur] = "text" THEN "text" ELSE ""
    /\ found_fields' = NoFields
    /\ soft' = IF files[cur] = "unreadable" THEN soft \cup {"Loader"} ELSE soft
    /\ trace' = Append(trace, "Loader")
    /\ pc' = "get_spacy_model"
    /\ UNCHANGED <<other, dbvars, globals, cur, mongo_client, locals, analysis_result,
                   search_content_string, semantic_locals, exc, raised, swallowed>>

\* contract_processor.py 14-25, called at 69: the global is loaded on first
\* use and kept; a model that is not installed raises RuntimeError.
get_spacy_model ==
    /\ pc = "get_spacy_model"
    /\ \/ /\ _nlp' = "en_core_web_sm"
          /\ nlp' = "en_core_web_sm"
          /\ UNCHANGED <<_semantic_model, semantic_model, exc>>
          /\ pc' = "_extract_with_ner_and_context"
       \/ /\ _nlp = Null
          /\ raise_in_process("SpaCy model not available")
    /\ UNCHANGED <<other, dbvars, cur, mongo_client, pipeline, search_content_string,
                   history>>

\* contract_processor.py 111-127 and 72-73: the Context strategy.  norgs is
\* the number of ORG entities found, rep whether a representative pattern
\* matches; then del nlp drops the local name only.
_extract_with_ner_and_context ==
    /\ pc = "_extract_with_ner_and_context"
    /\ \/ /\ \E norgs \in 0..MaxOrgs, rep \in MatchLens :
               /\ full_text = "" => norgs = 0
               /\ found_fields' =
                    [found_fields EXCEPT
                       !["customer_name"] =
                           IF norgs >= 2 THEN Candidate("orgs[0]", 75, NoCount) ELSE @,
                       !["vendor_name"] =
                           IF norgs >= 2 THEN Candidate("orgs[1]", 75, NoCount) ELSE @,
                       !["textual_representative"] =
                           _find_field_regex(full_text, rep, "representative", 80)]
          /\ nlp' = Null
          /\ trace' = Append(trace, "Context")
          /\ pc' = "_extract_with_regex"
          /\ UNCHANGED <<globals, semantic_model, exc>>
       \/ /\ raise_in_process("nlp call failed")
          /\ trace' = Append(trace, "Context")
          /\ UNCHANGED found_fields
    /\ UNCHANGED <<other, dbvars, cur, mongo_client, full_text, analysis_result,
                   search_content_string, semantic_locals, soft, raised, swallowed>>

\* The Pattern strategy ending the sequence when it finds neither field.
_extract_with_regex_halts ==
    /\ pc = "_extract_with_regex"
    /\ \E pay \in MatchLens, bill \in MatchLens :
          /\ found_fields' =
               [found_fields EXCEPT
                  !["payment_terms"] = _find_field_regex(full_text, pay, "payment", 95),
                  !["billing_cycle"] = _find_field_regex(full_text, bill, "billing", 92)]
          /\ pc' = IF found_fields'["payment_terms"] = None
                      /\ found_fields'["billing_cycle"] = None
                   THEN "consolidate"
                   ELSE "_extract_with_layout_parser"
    /\ trace' = Append(trace, "Pattern")
    /\ UNCHANGED <<other, dbvars, globals, cur, mongo_client, locals, full_text,
                   analysis_result, search_content_string, semantic_locals, exc, soft, raised, swallowed>>

\* contract_processor.py 130-135: the Pattern strategy.
_extract_with_regex ==
    /\ pc = "_extract_with_regex"
    /\ \E pay \in MatchLens, bill \in MatchLens :
          found_fields' =
            [found_fields EXCEPT
               !["payment_terms"] = _find_field_regex(full_text, pay, "payment", 95),
               !["billing_cycle"] = _find_field_regex(full_text, bill, "billing", 92)]
    /\ trace' = Append(trace, "Pattern")
    /\ pc' = "_extract_with_layout_parser"
    /\ UNCHANGED <<other, dbvars, globals, cur, mongo_client, locals, full_text,
                   analysis_result, search_content_string, semantic_locals, exc, soft, raised, swallowed>>

\* What pdfplumber can do with the file: it raises, the signature zone has
\* no text, the zone has text and no pattern matches, a pattern matches.
LayoutOutcomes(doc) ==
    CASE doc = "text"  -> {"raise", "empty", "nomatch", "match"}
      [] doc = "blank" -> {"raise", "empty"}
      [] OTHER         -> {"raise"}

\* contract_processor.py 178-192: the candidate of _find_field_regex over
\* the text of the zone, its snippet behind the page prefix.
_find_signatory_by_layout(outcome, matched) ==
    IF outcome = "match" /\ _find_field_regex("zone", matched, "signatory", 98) # None
    THEN [_find_field_regex("zone", matched, "signatory", 98)
            EXCEPT !.source_snippet = PrefixLen + @]
    ELSE None

\* contract_processor.py 138-140: the Layout strategy.
_extract_with_layout_parser ==
    /\ pc = "_extract_with_layout_parser"
    /\ \E outcome \in LayoutOutcomes(files[cur]), matched \in MatchLens :
          /\ (outcome = "match") <=> (matched > 0)
          /\ found_fields' = [found_fields EXCEPT
                !["signature_block_signatory"] =
                    _find_signatory_by_layout(outcome, matched)]
          /\ soft' = IF outcome \in {"raise", "empty"}
                     THEN soft \cup {"Layout"} ELSE soft
    /\ trace' = Append(trace, "Layout")
    /\ pc' = "get_semantic_model"
    /\ UNCHANGED <<other, dbvars, globals, cur, mongo_client, locals, full_text,
                   analysis_result, search_content_string, semantic_locals, exc, raised, swallowed>>

\* contract_processor.py 27-38, called at 82.
get_semantic_model ==
    /\ pc = "get_semantic_model"
    /\ \/ /\ _semantic_model' = "all-MiniLM-L4-v2"
          /\ semantic_model' = "all-MiniLM-L4-v2"
          /\ UNCHANGED <<_nlp, nlp, exc>>
          /\ pc' = "_extract_with_semantic_classifier"
       \/ /\ _semantic_model = Null
          /\ raise_in_process("Sentence transformer not available")
    /\ UNCHANGED <<other, dbvars, cur, mongo_client, pipeline, search_content_string,
                   history>>

\* contract_processor.py 194-217: the best (sentence, category) pair over
\* the keyword-matching sentences of every page.  A file that cannot be
\* opened gives None from the handler (212-214); a score of at most 0.5, or
\* no candidate sentence at all (score 0), gives None.
\* The snippet is the whole sentence, of length sentence.
_classify_renewal_clause_chunked(doc, score, sentence) ==
    IF doc = "text" /\ score > 50
    THEN Candidate("classification+sentence", score, sentence)
    ELSE None

\* The 0.65 test with the 0.5 of the classifier in its place.
semantic_accepted_at_half(candidate) ==
    candidate # None /\ candidate.confidence_score > 50

\* contract_processor.py 148: the semantic candidate is trusted above 0.65.
semantic_accepted(candidate) ==
    candidate # None /\ candidate.confidence_score > 65

\* contract_processor.py 148-156: the two-tier decision for renewal_terms.
renewal_decision(candidate, text, renew) ==
    IF semantic_accepted(candidate)
    THEN candidate
    ELSE _find_field_regex(text, renew, "renewal sentence", 70)

\* contract_processor.py 143-156 and 85-86: the Semantic strategy; encode of
\* the category descriptions (196) is outside the try and may raise.  score
\* is the best similarity over the keyword-matching sentences; best_match
\* keeps its initial 0 when the file cannot be opened or has no sentence.
_extract_with_semantic_classifier ==
    /\ pc = "_extract_with_semantic_classifier"
    /\ \/ /\ \E score \in SimScores, sentence \in SentenceLens,
                  renew \in MatchLens :
               /\ best_score' = IF files[cur] = "text" THEN score ELSE 0
               /\ renewal_semantic' =
                     _classify_renewal_clause_chunked(files[cur], score, sentence)
               /\ fallback_calls' = IF semantic_accepted(renewal_semantic')
                                    THEN fallback_calls
                                    ELSE fallback_calls + 1
               /\ found_fields' = [found_fields EXCEPT !["renewal_terms"] =
                     renewal_decision(renewal_semantic', full_text, renew)]
          /\ semantic_model' = Null
          /\ trace' = Append(trace, "Semantic")
          /\ pc' = "consolidate"
          /\ UNCHANGED <<globals, nlp, exc>>
       \/ /\ raise_in_process("encode failed")
          /\ trace' = Append(trace, "Semantic")
          /\ UNCHANGED <<found_fields, semantic_locals>>
    /\ UNCHANGED <<other, dbvars, cur, mongo_client, full_text, analysis_result,
                   search_content_string, soft, raised, swallowed>>

\* consolidate with the precedence of the two candidates the other way round.
consolidate_prefers_text(ff) ==
    IF ff["textual_representative"] # None
    THEN [ff EXCEPT !["authorized_signatory"] = ff["textual_representative"]]
    ELSE IF ff["signature_block_signatory"] # None
         THEN [ff EXCEPT !["authorized_signatory"] = ff["signature_block_signatory"]]
         ELSE ff

\* contract_processor.py 88-92: precedence for authorized_signatory.
consolidate(ff) ==
    IF ff["signature_block_signatory"] # None
    THEN [ff EXCEPT !["authorized_signatory"] = ff["signature_block_signatory"]]
    ELSE IF ff["textual_representative"] # None
         THEN [ff EXCEPT !["authorized_signatory"] = ff["textual_representative"]]
         ELSE ff

\* contract_processor.py 160
CRITICAL_FIELDS_CHECKLIST ==
    <<"customer_name", "vendor_name", "authorized_signatory",
      "payment_terms", "billing_cycle", "renewal_terms">>

\* IsGap that looks at the signature-block candidate where the resolved
\* authorized_signatory is meant.
IsGap_of_raw_candidate(ff, field) ==
    IF field = "authorized_signatory"
    THEN ff["signature_block_signatory"] = None
    ELSE ff[field] = None

IsGap(ff, field) == ff[field] = None

RECURSIVE GapsFrom(_, _)
GapsFrom(ff, i) ==
    IF i > Len(CRITICAL_FIELDS_CHECKLIST) THEN <<>>
    ELSE (IF IsGap(ff, CRITICAL_FIELDS_CHECKLIST[i])
          THEN <<CRITICAL_FIELDS_CHECKLIST[i]>> ELSE <<>>)
         \o GapsFrom(ff, i + 1)

\* contract_processor.py 159-167
_structure_and_finalize(ff) ==
    [extracted_data |->
        [party_identification |->
            [customer |-> ff["customer_name"],
             vendor |-> ff["vendor_name"],
             authorized_signatories |-> ff["authorized_signatory"]],
         payment_structure |->
            [payment_terms |-> ff["payment_terms"]],
         revenue_classification |->
            [billing_cycle |-> ff["billing_cycle"],
             renewal_terms |-> ff["renewal_terms"]]],
     identified_gaps |-> GapsFrom(ff, 1)]

\* contract_processor.py 88-94: consolidation, then the result is returned
\* to the task through analyze_contract_advanced.
consolidate_and_finalize ==
    /\ pc = "consolidate"
    /\ found_fields' = consolidate(found_fields)
    /\ analysis_result' = _structure_and_finalize(found_fields')
    /\ trace' = Append(trace, "Consolidate")
    /\ pc' = "progress90"
    /\ UNCHANGED <<other, dbvars, globals, cur, mongo_client, locals, full_text,
                   search_content_string, semantic_locals, exc, soft, raised, swallowed>>

\* ---------------------------------------- process_contract_task, the end
\* celery_worker.py 55-76: .get("customer", {}) returns the stored None
\* when the key is there with a null leaf, and None.get raises
\* AttributeError; with both parties present the keywords are the
\* sanitised file name and the two sanitised names.
search_content ==
    /\ pc = "search_content"
    /\ LET pi == analysis_result.extracted_data.party_identification IN
         IF pi.customer = None \/ pi.vendor = None
         THEN /\ exc' = "'NoneType' object has no attribute 'get'"
              /\ pc' = "except"
              /\ UNCHANGED search_content_string
         ELSE /\ search_content_string' =
                    <<"file name", pi.customer.value, pi.vendor.value>>
              /\ pc' = "final_write"
              /\ UNCHANGED exc
    /\ UNCHANGED <<other, dbvars, globals, cur, mongo_client, locals, pipeline, history>>

\* final_update with the gap list left to a later write.
final_update_without_gaps(rec, result, content) ==
    [rec EXCEPT !.processing_status = "completed",
                !.progress_percentage = 100,
                !.progress_message = "Processing complete.",
                !.extracted_data = result.extracted_data,
                !.gaps_count = Len(result.identified_gaps),
                !.search_content = content]

\* celery_worker.py 79-91: the $set of the terminal success write.
final_update(rec, result, content) ==
    [rec EXCEPT !.processing_status = "completed",
                !.progress_percentage = 100,
                !.progress_message = "Processing complete.",
                !.extracted_data = result.extracted_data,
                !.identified_gaps = result.identified_gaps,
                !.gaps_count = Len(result.identified_gaps),
                !.search_content = content]

\* final_write where the statement after the write (93) raises, so that the
\* handler runs although the terminal write has landed.
final_write_then_raise ==
    /\ pc = "final_write"
    /\ records' = [records EXCEPT ![cur] =
                     final_update(@, analysis_result, search_content_string)]
    /\ pc' = "except"
    /\ exc' = "print failed"
    /\ UNCHANGED <<other, files, queue, results, globals, cur, mongo_client, locals,
                   pipeline, search_content_string, history>>

\* celery_worker.py 92
final_write ==
    /\ pc = "final_write"
    /\ \/ /\ records' = [records EXCEPT ![cur] =
                           final_update(@, analysis_result, search_content_string)]
          /\ pc' = "finally"
          /\ exc' = exc
       \/ /\ records' = records
          /\ pc' = "except"
          /\ exc' = "update_one failed"
    /\ UNCHANGED <<other, files, queue, results, globals, cur, mongo_client, locals,
                   pipeline, search_content_string, history>>

\* error_update that resets the progress of a failed job.
error_update_resets_progress(rec, error_msg) ==
    [rec EXCEPT !.processing_status = "error",
                !.progress_percentage = 0,
                !.progress_message = "Processing failed.",
                !.error_message = error_msg]

\* error_update that leaves the message to a later write.
error_update_without_message(rec, error_msg) ==
    [rec EXCEPT !.processing_status = "error",
                !.progress_percentage = 100,
                !.progress_message = "Processing failed."]

\* celery_worker.py 105-110: the $set of the terminal failure write.
error_update(rec, error_msg) ==
    [rec EXCEPT !.processing_status = "error",
                !.progress_percentage = 100,
                !.progress_message = "Processing failed.",
                !.error_message = error_msg]

\* The handler without the try around its own write: an exception of the
\* error write leaves the task.
except_handler_unguarded ==
    /\ pc = "except"
    /\ \/ /\ mongo_client
          /\ records' = [records EXCEPT ![cur] = error_update(@, exc)]
          /\ exc' = Null
          /\ pc' = "finally"
       \/ /\ records' = records
          /\ exc' = "error write failed"
          /\ pc' = "propagated"
    /\ raised' = exc
    /\ UNCHANGED <<other, files, queue, results, globals, cur, mongo_client, locals,
                   pipeline, search_content_string, trace, soft, swallowed>>

\* celery_worker.py 95-113: the handler of the task.  The error write needs
\* contracts_collection, which is unbound when MongoClient raised; any
\* exception of the error write is caught and printed.
except_handler ==
    /\ pc = "except"
    /\ \/ /\ mongo_client
          /\ records' = [records EXCEPT ![cur] = error_update(@, exc)]
          /\ swallowed' = swallowed
       \/ /\ records' = records
          /\ swallowed' = swallowed \cup {"error write"}
    /\ raised' = exc
    /\ exc' = Null
    /\ pc' = "finally"
    /\ UNCHANGED <<other, files, queue, results, globals, cur, mongo_client, locals,
                   pipeline, search_content_string, trace, soft>>

\* celery_worker.py 114-118: close the client; anything it raises (always a
\* NameError when mongo_client is unbound) is dropped by the bare except.
finally_close ==
    /\ pc = "finally"
    /\ \/ /\ mongo_client
          /\ swallowed' = swallowed
       \/ /\ swallowed' = swallowed \cup {"close"}
    /\ pc' = "return"
    /\ UNCHANGED <<other, dbvars, globals, cur, mongo_client, locals, pipeline,
                   search_content_string, exc, trace, soft, raised>>

\* celery_worker.py 120: the task returns; its frame is gone.
task_return ==
    /\ pc = "return"
    /\ results' = [results EXCEPT ![cur] =
                     [contract_id |-> cur, status |-> "processing_finished"]]
    /\ cur' = 0
    /\ pc' = "idle"
    /\ mongo_client' = FALSE
    /\ full_text' = ""
    /\ found_fields' = NoFields
    /\ analysis_result' = None
    /\ best_score' = 0
    /\ renewal_semantic' = None
    /\ fallback_calls' = 0
    /\ search_content_string' = NoList
    /\ trace' = <<>>
    /\ soft' = {}
    /\ raised' = Null
    /\ swallowed' = {}
    /\ UNCHANGED <<other, files, records, queue, globals, locals, exc>>

\* ------------------------------------------------------------------ next
Next ==
    \/ \E j \in Jobs, doc \in DocKinds : upload_contract(j, doc)
    \/ task_start
    \/ connect
    \/ check_file
    \/ progress10
    \/ progress20
    \/ _get_full_text
    \/ get_spacy_model
    \/ _extract_with_ner_and_context
    \/ _extract_with_regex
    \/ _extract_with_layout_parser
    \/ get_semantic_model
    \/ _extract_with_semantic_classifier
    \/ consolidate_and_finalize
    \/ progress90
    \/ search_content
    \/ final_write
    \/ except_handler
    \/ finally_close
    \/ task_return

Spec == Init /\ [][Next]_vars

\* ------------------------------------------------------ two worker processes
\* Two worker processes take tasks off the same queue and write to the same
\* collection.  The variables of the task hold the process that takes the
\* step; other holds the process that is waiting for the processor.
Workers == 2

\* As many uploads as there are worker processes, so that every job can be
\* in flight at the same time as every other.
ConcJobs == 1..Workers

InitConc ==
    /\ files = [j \in ConcJobs |-> Null]
    /\ records = [j \in ConcJobs |-> None]
    /\ queue = <<>>
    /\ results = [j \in ConcJobs |-> None]
    /\ _nlp = IdleWorker._nlp
    /\ _semantic_model = IdleWorker._semantic_model
    /\ cur = IdleWorker.cur
    /\ pc = IdleWorker.pc
    /\ mongo_client = IdleWorker.mongo_client
    /\ nlp = IdleWorker.nlp
    /\ semantic_model = IdleWorker.semantic_model
    /\ full_text = IdleWorker.full_text
    /\ found_fields = IdleWorker.found_fields
    /\ analysis_result = IdleWorker.analysis_result
    /\ best_score = IdleWorker.best_score
    /\ renewal_semantic = IdleWorker.renewal_semantic
    /\ fallback_calls = IdleWorker.fallback_calls
    /\ search_content_string = IdleWorker.search_content_string
    /\ exc = IdleWorker.exc
    /\ trace = IdleWorker.trace
    /\ soft = IdleWorker.soft
    /\ raised = IdleWorker.raised
    /\ swallowed = IdleWorker.swallowed
    /\ other = IdleWorker

\* The scheduler gives the processor to the other worker process.
switch_worker ==
    /\ other' = WorkerState
    /\ _nlp' = other._nlp
    /\ _semantic_model' = other._semantic_model
    /\ cur' = other.cur
    /\ pc' = other.pc
    /\ mongo_client' = other.mongo_client
    /\ nlp' = other.nlp
    /\ semantic_model' = other.semantic_model
    /\ full_text' = other.full_text
    /\ found_fields' = other.found_fields
    /\ analysis_result' = other.analysis_result
    /\ best_score' = other.best_score
    /\ renewal_semantic' = other.renewal_semantic
    /\ fallback_calls' = other.fallback_calls
    /\ search_content_string' = other.search_content_string
    /\ exc' = other.exc
    /\ trace' = other.trace
    /\ soft' = other.soft
    /\ raised' = other.raised
    /\ swallowed' = other.swallowed
    /\ UNCHANGED dbvars

\* The documents of the concurrent runs: the parties are the only fields
\* their text can hold, and no sentence of theirs has a renewal keyword.
SmallDocument ==
    /\ \A f \in FieldNames \ {"customer_name", "vendor_name"} :
          found_fields[f] = None
    /\ best_score = 0

NextConc ==
    \/ \E j \in ConcJobs, doc \in DocKinds : upload_contract(j, doc)
    \/ task_start
    \/ connect
    \/ check_file
    \/ progress10
    \/ progress20
    \/ _get_full_text
    \/ get_spacy_model
    \/ _extract_with_ner_and_context /\ SmallDocument'
    \/ _extract_with_regex /\ SmallDocument'
    \/ _extract_with_layout_parser /\ SmallDocument'
    \/ get_semantic_model
    \/ _extract_with_semantic_classifier /\ SmallDocument'
    \/ consolidate_and_finalize
    \/ progress90
    \/ search_content
    \/ final_write
    \/ except_handler
    \/ finally_close
    \/ task_return
    \/ switch_worker

SpecConc == InitConc /\ [][NextConc]_vars

\* --------------------------------------------------------------- readers
\* api/contracts.py 55-91: get_contract_data as a function of the stored
\* document; only a completed record gives the data.
get_contract_data(contract) ==
    IF contract = None THEN [status_code |-> 404]
    ELSE IF contract.processing_status = "processing" THEN [status_code |-> 422]
    ELSE IF contract.processing_status = "error" THEN [status_code |-> 409]
    ELSE IF contract.processing_status # "completed" THEN [status_code |-> 500]
    ELSE [status_code |-> 200,
          processing_status |-> contract.processing_status,
          extracted_data |-> contract.extracted_data,
          identified_gaps |-> contract.identified_gaps]

\* ------------------------------------------------------------ properties
Terminal == {"completed", "error"}

Uploaded == {j \in Jobs : records[j] # None}

Returned == {j \in Jobs : results[j] # None}

\* Exceptions that come from the environment of the task (database, disk,
\* models, libraries), not from the document.
EnvironmentFaults ==
    {"MongoClient failed", "File not found", "update_one failed",
     "SpaCy model not available", "Sentence transformer not available",
     "nlp call failed", "encode failed"}

\* C1: whenever process_contract_task has returned for a job, the record of
\* the job is in a terminal status (completed or error), whatever failed.
C1_TerminalOnReturn ==
    \A j \in Returned : records[j].processing_status \in Terminal

\* C2: once the record of a job is completed or error, no later step
\* changes any field of it.
C2_TerminalOnce ==
    [][\A j \in Uploaded :
          records[j].processing_status \in Terminal => records'[j] = records[j]]_vars

\* C2 witness: the terminal write has landed and the task is still running.
C2_Witness ==
    /\ pc = "finally"
    /\ records[cur].processing_status \in Terminal

\* C3: in every state of a record, extracted_data and identified_gaps are
\* both unset or both set, set exactly when the status is completed, so a
\* reader that gets data from get_contract_data gets both.
C3_DataAndGapsTogether ==
    \A j \in Uploaded :
       /\ (records[j].extracted_data = None) <=> (records[j].identified_gaps = NoList)
       /\ (records[j].extracted_data # None) <=> (records[j].processing_status = "completed")
       /\ get_contract_data(records[j]).status_code = 200 =>
             /\ get_contract_data(records[j]).extracted_data # None
             /\ get_contract_data(records[j]).identified_gaps # NoList

\* C3 witness: a reader gets the data of a completed record while the task
\* that wrote it has not returned yet.
C3_Witness ==
    /\ pc = "finally"
    /\ get_contract_data(records[cur]).status_code = 200

\* C4: the progress_percentage of a record starts at 0, never decreases and
\* stays within 0..100, on the success path and on every failure path.
C4_ProgressMonotone ==
    [][\A j \in Jobs :
          /\ (records[j] = None /\ records'[j] # None) =>
                records'[j].progress_percentage = 0
          /\ (records[j] # None) =>
                /\ records'[j].progress_percentage >= records[j].progress_percentage
                /\ records'[j].progress_percentage \in 0..100]_vars

\* C4 witness: a failure after the last progress update has been written as
\* the terminal error.
C4_Witness ==
    /\ pc = "finally"
    /\ raised # Null
    /\ analysis_result # None
    /\ records[cur].processing_status = "error"
    /\ records[cur].progress_percentage = 100

\* The result of the pipeline on a document in which nothing was found.
EmptyResult == _structure_and_finalize(NoFields)

\* C5: a job whose document yields no text and no extractable field ends
\* with identified_gaps equal to the full checklist, gaps_count 6 and every
\* leaf of extracted_data null in its record.
C5_EmptyDocumentGaps ==
    (/\ pc = "return"
     /\ analysis_result = EmptyResult
     /\ full_text = ""
     /\ raised \notin EnvironmentFaults)
    => /\ records[cur].identified_gaps = CRITICAL_FIELDS_CHECKLIST
       /\ records[cur].gaps_count = 6
       /\ records[cur].extracted_data = EmptyResult.extracted_data

\* The fixed order of the strategies, consolidation last.
StrategyOrder ==
    <<"Loader", "Context", "Pattern", "Layout", "Semantic", "Consolidate">>

\* C6: a soft failure (unreadable document, layout extractor raising or
\* finding an empty zone) is absorbed by its strategy: the other strategies
\* run and the job does not end as error with an error_message because of
\* it.  For the Layout strategy "because of it" is read on the documents in
\* which the parties were found, the ones the task can complete at all.
C6_SoftFailureAbsorbed ==
    (pc = "return" /\ soft # {} /\ raised \notin EnvironmentFaults)
    => /\ trace = StrategyOrder
       /\ ("Loader" \in soft \/ found_fields["customer_name"] # None) =>
             /\ records[cur].processing_status # "error"
             /\ records[cur].error_message = Null

ModelUnavailable ==
    {"SpaCy model not available", "Sentence transformer not available"}

\* C7: when a required model cannot be loaded the job ends with status
\* error and extracted_data, identified_gaps, gaps_count and search_content
\* all unset.
C7_ModelUnavailable ==
    (pc = "return" /\ raised \in ModelUnavailable)
    => /\ records[cur].processing_status = "error"
       /\ records[cur].extracted_data = None
       /\ records[cur].identified_gaps = NoList
       /\ records[cur].gaps_count = NoCount
       /\ records[cur].search_content = NoList

\* A model is held by the process while the global or a local names it.
HoldsSpacy == _nlp # Null \/ nlp # Null

HoldsSemantic == _semantic_model # Null \/ semantic_model # Null

\* C8: the entity-recognition model is released before the Pattern strategy
\* starts, and the two models are never held at the same time.
C8_ModelsReleased ==
    /\ pc = "_extract_with_regex" => ~HoldsSpacy
    /\ ~(HoldsSpacy /\ HoldsSemantic)

\* How many strategies have run when the task is at a position inside
\* process().
StrategiesBefore(position) ==
    CASE position = "get_spacy_model"                   -> 1
      [] position = "_extract_with_ner_and_context"     -> 1
      [] position = "_extract_with_regex"               -> 2
      [] position = "_extract_with_layout_parser"       -> 3
      [] position = "get_semantic_model"                -> 4
      [] position = "_extract_with_semantic_classifier" -> 4
      [] position = "consolidate"                       -> 5

InProcess ==
    {"get_spacy_model", "_extract_with_ner_and_context", "_extract_with_regex",
     "_extract_with_layout_parser", "get_semantic_model",
     "_extract_with_semantic_classifier", "consolidate"}

PipelineRaises == ModelUnavailable \cup {"nlp call failed", "encode failed"}

\* C9: the strategies run one after the other in the order Loader, Context,
\* Pattern, Layout, Semantic, then consolidation; only an exception ends the
\* sequence early, never a strategy that found nothing.
C9_FixedOrder ==
    /\ pc \in InProcess => trace = SubSeq(StrategyOrder, 1, StrategiesBefore(pc))
    /\ (pc \notin InProcess /\ trace # <<>>) =>
          \/ trace = StrategyOrder
          \/ exc \in PipelineRaises
          \/ raised \in PipelineRaises

\* C9 witness: the Context and Pattern strategies found nothing, and the
\* later strategies and the consolidation have run all the same.
C9_Witness ==
    /\ trace = StrategyOrder
    /\ found_fields["customer_name"] = None
    /\ found_fields["textual_representative"] = None
    /\ found_fields["payment_terms"] = None
    /\ found_fields["billing_cycle"] = None
    /\ found_fields["renewal_terms"] # None

\* C10: after consolidation authorized_signatory is the signature-block
\* candidate when there is one, else the textual representative when there
\* is one, else absent; the result carries that value.
C10_SignatoryPrecedence ==
    trace = StrategyOrder =>
       LET sig == found_fields["signature_block_signatory"]
           rep == found_fields["textual_representative"]
           auth == found_fields["authorized_signatory"]
       IN /\ sig # None => auth = sig
          /\ (sig = None /\ rep # None) => auth = rep
          /\ (sig = None /\ rep = None) => auth = None
          /\ analysis_result.extracted_data.party_identification.authorized_signatories
                = auth

\* C10 witness: both candidates are present after consolidation.
C10_Witness ==
    /\ trace = StrategyOrder
    /\ found_fields["signature_block_signatory"] # None
    /\ found_fields["textual_representative"] # None
    /\ found_fields["signature_block_signatory"] # found_fields["textual_representative"]

\* The leaf of extracted_data that a checklist field is serialised under.
LeafOf(data, field) ==
    CASE field = "customer_name"        -> data.party_identification.customer
      [] field = "vendor_name"          -> data.party_identification.vendor
      [] field = "authorized_signatory" -> data.party_identification.authorized_signatories
      [] field = "payment_terms"        -> data.payment_structure.payment_terms
      [] field = "billing_cycle"        -> data.revenue_classification.billing_cycle
      [] field = "renewal_terms"        -> data.revenue_classification.renewal_terms

ChecklistFields == {CRITICAL_FIELDS_CHECKLIST[i] : i \in DOMAIN CRITICAL_FIELDS_CHECKLIST}

IndexInChecklist(field) ==
    CHOOSE i \in DOMAIN CRITICAL_FIELDS_CHECKLIST : CRITICAL_FIELDS_CHECKLIST[i] = field

\* All six leaf keys are there, and gaps lists, in checklist order and once
\* each, exactly the checklist fields whose leaf is null.
WellFormedResult(data, gaps) ==
    /\ DOMAIN data = {"party_identification", "payment_structure",
                      "revenue_classification"}
    /\ DOMAIN data.party_identification =
          {"customer", "vendor", "authorized_signatories"}
    /\ DOMAIN data.payment_structure = {"payment_terms"}
    /\ DOMAIN data.revenue_classification = {"billing_cycle", "renewal_terms"}
    /\ \A i \in DOMAIN gaps : gaps[i] \in ChecklistFields
    /\ \A i, k \in DOMAIN gaps :
          i < k => IndexInChecklist(gaps[i]) < IndexInChecklist(gaps[k])
    /\ \A field \in ChecklistFields :
          (\E i \in DOMAIN gaps : gaps[i] = field) <=> (LeafOf(data, field) = None)

\* C11: every result of the pipeline has all six leaf keys, identified_gaps
\* is exactly the checklist fields with a null leaf, in checklist order (so
\* never a field with a non-null leaf, never a raw signatory candidate), and
\* the gaps_count of a completed record is the length of its gap list.
C11_GapsMatchNullLeaves ==
    /\ analysis_result # None =>
          WellFormedResult(analysis_result.extracted_data,
                           analysis_result.identified_gaps)
    /\ \A j \in Uploaded :
          records[j].processing_status = "completed" =>
             /\ WellFormedResult(records[j].extracted_data,
                                 records[j].identified_gaps)
             /\ records[j].gaps_count = Len(records[j].identified_gaps)

\* C11 witness: a result whose authorized signatory comes from the text
\* while the signature block gave nothing, with some gaps and some leaves.
C11_Witness ==
    /\ analysis_result # None
    /\ found_fields["signature_block_signatory"] = None
    /\ found_fields["textual_representative"] # None
    /\ analysis_result.identified_gaps = <<"payment_terms", "renewal_terms">>

\* The Semantic strategy has run to its end in the task at hand.
SemanticDone ==
    /\ Len(trace) >= 5
    /\ exc # "encode failed"
    /\ raised # "encode failed"

\* C12: the classifier gives a candidate exactly when the best score is
\* above 0.5 (none without a keyword-matching sentence); the candidate is
\* renewal_terms only above 0.65 and then the fallback regex does not run;
\* otherwise the fallback runs exactly once and its result at confidence
\* 0.70, possibly absent, is renewal_terms.
C12_RenewalThresholds ==
    /\ renewal_semantic # None =>
          /\ best_score > 50
          /\ renewal_semantic.confidence_score = best_score
    /\ ~SemanticDone => (fallback_calls = 0 /\ renewal_semantic = None)
    /\ SemanticDone =>
          /\ best_score > 50 => renewal_semantic # None
          /\ IF best_score > 65
             THEN /\ found_fields["renewal_terms"] = renewal_semantic
                  /\ fallback_calls = 0
             ELSE /\ fallback_calls = 1
                  /\ \/ found_fields["renewal_terms"] = None
                     \/ found_fields["renewal_terms"] =
                           Candidate("renewal sentence", 70,
                                     found_fields["renewal_terms"].source_snippet)

\* C12 witness: a candidate at exactly 0.65 is not trusted and the fallback,
\* run once, gives renewal_terms.
C12_Witness ==
    /\ SemanticDone
    /\ best_score = 65
    /\ renewal_semantic # None
    /\ fallback_calls = 1
    /\ found_fields["renewal_terms"] # None
    /\ found_fields["renewal_terms"].confidence_score = 70

\* The non-null leaves of an extracted_data tree.
NonNullLeaves(data) ==
    {LeafOf(data, field) : field \in ChecklistFields} \ {None}

\* C13 as claimed: every non-null leaf of extracted_data carries a
\* confidence score in [0,1] and a source_snippet of at most 250 characters.
C13_EveryLeafCited ==
    analysis_result # None =>
       \A leaf \in NonNullLeaves(analysis_result.extracted_data) :
          /\ leaf.confidence_score \in 0..100
          /\ leaf.source_snippet # NoCount
          /\ leaf.source_snippet <= SnippetMax

\* C13 as amended: every non-null leaf carries a confidence score in [0,1];
\* a leaf of the regex helper (Pattern, textual representative, fallback
\* regex) carries a snippet of at most 250 characters, the Layout leaf that
\* snippet behind the page prefix, the Semantic leaf its whole sentence,
\* and the customer and vendor leaves carry no snippet.
C13_LeafConfidenceAndCitation ==
    analysis_result # None =>
       LET data == analysis_result.extracted_data
           signatory == data.party_identification.authorized_signatories
           renewal == data.revenue_classification.renewal_terms
       IN /\ \A leaf \in NonNullLeaves(data) : leaf.confidence_score \in 0..100
          /\ \A leaf \in {data.party_identification.customer,
                          data.party_identification.vendor} \ {None} :
                leaf.source_snippet = NoCount
          /\ \A leaf \in {data.payment_structure.payment_terms,
                          data.revenue_classification.billing_cycle} \ {None} :
                leaf.source_snippet \in 1..SnippetMax
          /\ signatory # None =>
                IF signatory = found_fields["signature_block_signatory"]
                THEN signatory.source_snippet \in
                        (PrefixLen + 1)..(PrefixLen + SnippetMax)
                ELSE signatory.source_snippet \in 1..SnippetMax
          /\ renewal # None =>
                IF renewal = renewal_semantic
                THEN renewal.source_snippet >= 1
                ELSE renewal.source_snippet \in 1..SnippetMax

\* C13 witness: a result with the party leaves, a Layout signatory, a
\* Pattern leaf cut at 250 and a Semantic leaf longer than 250.
C13_Witness ==
    /\ analysis_result # None
    /\ found_fields["customer_name"] # None
    /\ found_fields["authorized_signatory"] = found_fields["signature_block_signatory"]
    /\ found_fields["signature_block_signatory"] # None
    /\ found_fields["payment_terms"] # None
    /\ found_fields["payment_terms"].source_snippet = SnippetMax
    /\ found_fields["renewal_terms"] # None
    /\ found_fields["renewal_terms"].source_snippet > SnippetMax

\* C14: in every state of a record error_message is set exactly when
\* processing_status is error: null from creation through the progress
\* updates and in the completed record, set by the write that sets error.
C14_ErrorMessageIffError ==
    \A j \in Uploaded :
       (records[j].error_message # Null) <=> (records[j].processing_status = "error")

\* C14 witness: the error write has landed, with the message of the
\* exception the handler caught.
C14_Witness ==
    /\ pc = "finally"
    /\ raised = "update_one failed"
    /\ records[cur].processing_status = "error"
    /\ records[cur].error_message = raised

\* The records a task that ran alone can leave behind when it reaches its
\* return, as a function of what that task computed and of nothing else:
\* the success write over the defaults, the error write over the defaults,
\* or, when the error write itself was lost, the last progress write.
SoloContent(w) ==
    IF w.raised = Null
    THEN {final_update(Contract, w.analysis_result, w.search_content_string)}
    ELSE IF "error write" \notin w.swallowed
         THEN {error_update(Contract, w.raised)}
         ELSE {Contract,
               update_progress(Contract, 10, "Starting contract analysis..."),
               update_progress(Contract, 20, "Loading NLP models..."),
               update_progress(Contract, 90,
                               "Finalizing analysis and saving results...")}

\* C15: two jobs run by two worker processes have distinct contract ids;
\* a step of a task changes no record but the one of its own contract id
\* (an upload only inserts a new record); and a task that reaches its
\* return, whatever the other worker did meanwhile, has left its record
\* with the content it leaves when it runs alone.
C15_JobsIndependent ==
    [][/\ \A j \in DOMAIN records :
             records'[j] # records[j] =>
                \/ records[j] = None /\ records'[j] = Contract
                \/ j = cur /\ pc # "idle"
       /\ cur' # 0 => cur' # other'.cur
       /\ pc' = "return" => records'[cur'] \in SoloContent(WorkerState')
       /\ other'.pc = "return" => records'[other'.cur] \in SoloContent(other')
      ]_vars

\* C15 witness: both workers have a task at its return at the same time,
\* one that completed and one that failed, each record with its own end.
C15_Witness ==
    /\ pc = "return" /\ other.pc = "return"
    /\ cur # other.cur
    /\ raised = Null
    /\ records[cur].processing_status = "completed"
    /\ other.raised = "update_one failed"
    /\ other.trace # <<>>
    /\ records[other.cur].processing_status = "error"
    /\ records[other.cur].error_message = other.raised

\* What the queue gets from a task that returned normally.
ProcessingFinished(j) == [contract_id |-> j, status |-> "processing_finished"]

\* C16: no exception leaves process_contract_task: whatever is raised (in
\* the pipeline, in a record write, in the error write, on close) goes to
\* the handler or is dropped, the task goes on to its return statement and
\* returns {contract_id, status: "processing_finished"}; a task that has
\* returned is not queued or started again.
C16_NeverPropagates ==
    [][/\ exc' # Null => pc' = "except"
       /\ (pc = "except" /\ pc' # pc) => (pc' = "finally" /\ exc' = Null)
       /\ (pc = "finally" /\ pc' # pc) => (pc' = "return" /\ exc' = Null)
       /\ (pc = "return" /\ pc' # pc) =>
             (pc' = "idle" /\ results'[cur] = ProcessingFinished(cur))
       /\ \A j \in Jobs :
             results[j] # None =>
                /\ results'[j] = ProcessingFinished(j)
                /\ cur' # j
                /\ \A i \in DOMAIN queue' : queue'[i] # j]_vars

\* C16 witness: the error write and the close have both raised, and the
\* task is at its return statement with no exception in flight.
C16_Witness ==
    /\ pc = "return"
    /\ exc = Null
    /\ raised = "SpaCy model not available"
    /\ swallowed = {"error write", "close"}

====
